---- MODULE Spec2Model ----
(***************************************************************************)
(* Preferences service (src/main.py): one table of housing preferences,    *)
(* five HTTP handlers over it.  Every handler runs in its own SQLAlchemy   *)
(* session (src/database.py get_db); the handlers share only the table.    *)
(* A handler is cut at its database statements: the query, the clock read, *)
(* the commit (flush of the pending INSERT/UPDATE/DELETE) and the refresh. *)
(***************************************************************************)
EXTENDS Integers, FiniteSets, Sequences, TLC

\* ------------------------------------------------------------------ bounds
MaxClock == 2
MaxIds == 2
MaxMentioned == 1

Procs == {"h1", "h2"}
Users == {"U1", "U2"}

\* None / SQL NULL; a present integer n is <<n>>, a present list is a sequence
NULL == <<>>
IntVals == {NULL, <<1>>}
LocVals == {<<"Williamsburg">>}

Columns == {"max_budget", "min_size", "rooms"}
PayloadKeys == Columns \cup {"location_area"}

NoRow == [id |-> 0]
NoResponse == [op |-> "none", user_id |-> "", status |-> 0, body |-> {}]
NoReq == [op |-> "none", user_id |-> "", body |-> NULL]

VARIABLES store, clock, nextId, pc, req, loaded, now, response, lastBody

vars == <<store, clock, nextId, pc, req, loaded, now, response, lastBody>>

\* ------------------------------------------------------------ wire models

\* A parsed request body: the keys the JSON mentioned (pydantic's
\* model_fields_set) and their values; a key never mentioned holds the
\* Field default, None.
Unset == [max_budget |-> NULL, min_size |-> NULL, rooms |-> NULL,
          location_area |-> NULL]

Parsed(given) ==
  [set |-> DOMAIN given,
   val |-> [k \in PayloadKeys |-> IF k \in DOMAIN given THEN given[k] ELSE NULL]]

ColumnBodies ==
  UNION { {Parsed(g) : g \in [ks -> IntVals]} :
            ks \in {x \in SUBSET Columns : Cardinality(x) <= MaxMentioned} }

Bodies ==
  ColumnBodies \cup
  { [set |-> b.set \cup {"location_area"},
     val |-> [b.val EXCEPT !["location_area"] = l]] :
       b \in ColumnBodies, l \in LocVals }

\* the request bodies of the sequential runs
PreferenceCreate == [user_id : Users, body : Bodies]

PreferenceUpdate == Bodies

\* the request bodies of the concurrent runs: a POST that gives rooms with a
\* location_area, a PATCH that gives rooms as null
RoomsAndLocation ==
  Parsed([rooms |-> <<1>>, location_area |-> <<"Williamsburg">>])

ConcurrentCreate == [user_id : Users, body : {RoomsAndLocation}]

ConcurrentUpdate == {Parsed([rooms |-> NULL])}

\* payload.<k>: attribute access on the parsed model
Attr(body, k) == body.val[k]

\* model_dump(exclude_none=True) in its place: a key given as null is dropped
model_dump_exclude_none(body) ==
  [k \in {x \in body.set : body.val[x] # NULL} |-> body.val[k]]

\* payload.model_dump(exclude_unset=True)
model_dump_exclude_unset(body) == [k \in body.set |-> body.val[k]]

PreferenceRead(p) ==
  [id |-> p.id, user_id |-> p.user_id, max_budget |-> p.max_budget,
   min_size |-> p.min_size, location_area |-> NULL, rooms |-> p.rooms,
   created_at |-> p.created_at, updated_at |-> p.updated_at]

\* ------------------------------------------------------------------ table

\* db.query(PreferencesDB).filter(PreferencesDB.user_id == u): the rows the
\* query matches; .first() takes one of them (no ORDER BY) or None.
Matching(u) == {r \in store : r.user_id = u}

RowById(i) == CHOOSE r \in store : r.id = i

\* the handlers that found no record and are about to INSERT one (uuid4 ids
\* are drawn from a finite supply here)
Inserting ==
  {q \in Procs : pc[q] \in {"now", "commit"} /\ req[q].op = "POST"
                    /\ loaded[q] = NoRow}

Init ==
  /\ store = {}
  /\ clock = 0
  /\ nextId = 1
  /\ pc = [p \in Procs |-> "idle"]
  /\ req = [p \in Procs |-> NoReq]
  /\ loaded = [p \in Procs |-> NoRow]
  /\ now = [p \in Procs |-> 0]
  /\ response = NoResponse
  /\ lastBody = [u \in Users |-> {}]

\* `response` is the HTTP response the step just taken sent, if it sent one
Silent == response' = NoResponse

\* datetime.utcnow() is non-decreasing
Tick ==
  /\ clock < MaxClock
  /\ clock' = clock + 1
  /\ Silent
  /\ UNCHANGED <<store, nextId, pc, req, loaded, now>>

\* --------------------------------------------------- session bookkeeping

Respond(p, status, body) ==
  response' = [op |-> req[p].op, user_id |-> req[p].user_id,
               status |-> status, body |-> body]

\* get_db's finally: the session closes, the handler's locals are gone
Close(p) ==
  /\ pc' = [pc EXCEPT ![p] = "idle"]
  /\ req' = [req EXCEPT ![p] = NoReq]
  /\ loaded' = [loaded EXCEPT ![p] = NoRow]
  /\ now' = [now EXCEPT ![p] = 0]

\* POST assigning only the keys the payload mentions: a merge
ReplaceMentionedFields(body) == [c \in Columns \cap body.set |-> Attr(body, c)]

\* The attribute assignments a handler made on the loaded object.
\* POST: all three columns from the payload (main.py 91-94).
ReplaceFields(body) == [c \in Columns |-> Attr(body, c)]

\* PATCH: only the keys of update_data (main.py 211-219).
MergeFields(body) ==
  LET update_data == model_dump_exclude_unset(body)
  IN [c \in Columns \cap DOMAIN update_data |-> update_data[c]]

Assigned(r) ==
  IF r.op = "POST" THEN ReplaceFields(r.body) ELSE MergeFields(r.body)

\* Session.commit() on a loaded object: the flush emits one UPDATE ... WHERE
\* id = :id carrying the attributes whose value differs from the value the
\* session loaded; with none it emits nothing.  updated_at is carried when
\* the handler's timestamp differs from the loaded one, and is otherwise
\* filled by the column's onupdate (datetime.utcnow at flush).
NetChange(old, assigned, c) == c \in DOMAIN assigned /\ assigned[c] # old[c]

HasUpdate(old, assigned, t) ==
  \/ \E c \in Columns : NetChange(old, assigned, c)
  \/ t # old.updated_at

Flushed(cur, old, assigned, c) ==
  IF NetChange(old, assigned, c) THEN assigned[c] ELSE cur[c]

FlushedUpdatedAt(old, t) == IF t # old.updated_at THEN t ELSE clock

\* the UPDATE also resetting created_at
UpdatedRowRecreated(cur, old, assigned, t) ==
  [id |-> cur.id, user_id |-> cur.user_id,
   max_budget |-> Flushed(cur, old, assigned, "max_budget"),
   min_size |-> Flushed(cur, old, assigned, "min_size"),
   location_area |-> cur.location_area,
   rooms |-> Flushed(cur, old, assigned, "rooms"),
   created_at |-> t,
   updated_at |-> FlushedUpdatedAt(old, t)]

UpdatedRow(cur, old, assigned, t) ==
  [id |-> cur.id, user_id |-> cur.user_id,
   max_budget |-> Flushed(cur, old, assigned, "max_budget"),
   min_size |-> Flushed(cur, old, assigned, "min_size"),
   location_area |-> cur.location_area,
   rooms |-> Flushed(cur, old, assigned, "rooms"),
   created_at |-> cur.created_at,
   updated_at |-> FlushedUpdatedAt(old, t)]

\* the INSERT carrying the payload's location_area into the row
NewRowWithLocation(u, body, t) ==
  [id |-> nextId, user_id |-> u,
   max_budget |-> Attr(body, "max_budget"),
   min_size |-> Attr(body, "min_size"),
   location_area |-> Attr(body, "location_area"),
   rooms |-> Attr(body, "rooms"),
   created_at |-> clock,
   updated_at |-> t]

\* PreferencesDB(user_id=..., max_budget=..., min_size=..., rooms=...) flushed
\* as an INSERT: id, created_at and updated_at come from the column defaults,
\* evaluated in column order (created_at, then updated_at at time t).
NewRow(u, body, t) ==
  [id |-> nextId, user_id |-> u,
   max_budget |-> Attr(body, "max_budget"),
   min_size |-> Attr(body, "min_size"),
   location_area |-> NULL,
   rooms |-> Attr(body, "rooms"),
   created_at |-> clock,
   updated_at |-> t]

\* ----------------------------------------------------------------- GET /
get_all_preferences(p) ==
  /\ pc[p] = "idle"
  /\ response' = [op |-> "LIST", user_id |-> "", status |-> 200,
                  body |-> {PreferenceRead(r) : r \in store}]
  /\ UNCHANGED <<store, clock, nextId, pc, req, loaded, now>>

\* ---------------------------------------------------------- GET /{userId}
get_user_preferences(p, userId) ==
  /\ pc[p] = "idle"
  /\ IF Matching(userId) = {}
       THEN response' = [op |-> "GET", user_id |-> userId, status |-> 404,
                         body |-> {}]
       ELSE \E pref \in Matching(userId) :
              response' = [op |-> "GET", user_id |-> userId, status |-> 200,
                           body |-> {PreferenceRead(pref)}]
  /\ UNCHANGED <<store, clock, nextId, pc, req, loaded, now>>

\* ---------------------------------------------------------------- POST /
\* lines 80-86: the lookup
create_or_update_preferences_query(p, payload) ==
  /\ pc[p] = "idle"
  /\ req' = [req EXCEPT ![p] = [op |-> "POST", user_id |-> payload.user_id,
                                body |-> payload.body]]
  /\ IF Matching(payload.user_id) = {}
       THEN /\ nextId + Cardinality(Inserting) <= MaxIds
            /\ loaded' = [loaded EXCEPT ![p] = NoRow]
       ELSE \E existing \in Matching(payload.user_id) :
              loaded' = [loaded EXCEPT ![p] = existing]
  /\ pc' = [pc EXCEPT ![p] = "now"]
  /\ Silent
  /\ UNCHANGED <<store, clock, nextId, now>>

\* line 88: now = datetime.utcnow()
create_or_update_preferences_now(p) ==
  /\ pc[p] = "now"
  /\ req[p].op = "POST"
  /\ now' = [now EXCEPT ![p] = clock]
  /\ pc' = [pc EXCEPT ![p] = "commit"]
  /\ Silent
  /\ UNCHANGED <<store, clock, nextId, req, loaded>>

\* After commit the session holds the object expired (expire_on_commit): its
\* identity, and no attribute values until db.refresh reads the row again.
Committed(p, i) ==
  /\ loaded' = [loaded EXCEPT ![p] = [id |-> i]]
  /\ now' = [now EXCEPT ![p] = 0]
  /\ pc' = [pc EXCEPT ![p] = "refresh"]
  /\ Silent
  /\ UNCHANGED req

\* lines 90-97 (existing) and 111-119 (new_pref): the assignments and commit
CommitUpdate(p) ==
  LET old == loaded[p]
      assigned == Assigned(req[p])
  IN IF ~HasUpdate(old, assigned, now[p])
       THEN \* no net change: no statement is emitted
            /\ UNCHANGED store
            /\ Committed(p, old.id)
       ELSE IF \A r \in store : r.id # old.id
         THEN \* UPDATE matched 0 rows: StaleDataError, rollback, 500
              /\ Respond(p, 500, {})
              /\ Close(p)
              /\ UNCHANGED store
         ELSE /\ store' = (store \ {RowById(old.id)})
                            \cup {UpdatedRow(RowById(old.id), old, assigned, now[p])}
              /\ Committed(p, old.id)

CommitInsert(p) ==
  \E t \in clock..MaxClock :
    /\ store' = store \cup {NewRow(req[p].user_id, req[p].body, t)}
    /\ clock' = t
    /\ nextId' = nextId + 1
    /\ Committed(p, nextId)

\* POST without the `if existing` branch: every call INSERTs
create_or_update_preferences_commit_insert(p) ==
  /\ pc[p] = "commit"
  /\ req[p].op = "POST"
  /\ CommitInsert(p)

create_or_update_preferences_commit(p) ==
  /\ pc[p] = "commit"
  /\ req[p].op = "POST"
  /\ IF loaded[p] # NoRow
       THEN CommitUpdate(p) /\ UNCHANGED <<clock, nextId>>
       ELSE CommitInsert(p)

\* db.refresh(obj) and the PreferenceRead built from it (98-109, 120-131,
\* 224-235): the row is read again by primary key
Refresh(p) ==
  IF \A r \in store : r.id # loaded[p].id
    THEN \* the row is gone: InvalidRequestError, 500
         Respond(p, 500, {})
    ELSE Respond(p, 200, {PreferenceRead(RowById(loaded[p].id))})

create_or_update_preferences_refresh(p) ==
  /\ pc[p] = "refresh"
  /\ req[p].op = "POST"
  /\ Refresh(p)
  /\ Close(p)
  /\ UNCHANGED <<store, clock, nextId>>

\* DELETE raising 404 when there is nothing to delete
delete_user_preferences_query_404(p, userId) ==
  /\ pc[p] = "idle"
  /\ IF Matching(userId) = {}
       THEN /\ response' = [op |-> "DELETE", user_id |-> userId,
                            status |-> 404, body |-> {}]
            /\ UNCHANGED <<pc, req, loaded>>
       ELSE /\ \E pref \in Matching(userId) :
                 loaded' = [loaded EXCEPT ![p] = pref]
            /\ req' = [req EXCEPT ![p] = [op |-> "DELETE", user_id |-> userId,
                                          body |-> NULL]]
            /\ pc' = [pc EXCEPT ![p] = "commit"]
            /\ Silent
  /\ UNCHANGED <<store, clock, nextId, now>>

\* ------------------------------------------------------- DELETE /{userId}
\* lines 172-182: the lookup, and the 204 when there is nothing to delete
delete_user_preferences_query(p, userId) ==
  /\ pc[p] = "idle"
  /\ IF Matching(userId) = {}
       THEN /\ response' = [op |-> "DELETE", user_id |-> userId,
                            status |-> 204, body |-> {}]
            /\ UNCHANGED <<pc, req, loaded>>
       ELSE /\ \E pref \in Matching(userId) :
                 loaded' = [loaded EXCEPT ![p] = pref]
            /\ req' = [req EXCEPT ![p] = [op |-> "DELETE", user_id |-> userId,
                                          body |-> NULL]]
            /\ pc' = [pc EXCEPT ![p] = "commit"]
            /\ Silent
  /\ UNCHANGED <<store, clock, nextId, now>>

\* DELETE without the commit: the session closes and rolls back
delete_user_preferences_uncommitted(p) ==
  /\ pc[p] = "commit"
  /\ req[p].op = "DELETE"
  /\ UNCHANGED store
  /\ Respond(p, 204, {})
  /\ Close(p)
  /\ UNCHANGED <<clock, nextId>>

\* lines 184-186: DELETE ... WHERE id = :id; a row already gone is a warning
delete_user_preferences_commit(p) ==
  /\ pc[p] = "commit"
  /\ req[p].op = "DELETE"
  /\ store' = {r \in store : r.id # loaded[p].id}
  /\ Respond(p, 204, {})
  /\ Close(p)
  /\ UNCHANGED <<clock, nextId>>

\* -------------------------------------------------------- PATCH /{userId}
\* lines 197-209: the lookup, and the 404
update_user_preferences_query(p, userId, payload) ==
  /\ pc[p] = "idle"
  /\ IF Matching(userId) = {}
       THEN /\ response' = [op |-> "PATCH", user_id |-> userId,
                            status |-> 404, body |-> {}]
            /\ UNCHANGED <<pc, req, loaded>>
       ELSE /\ \E pref \in Matching(userId) :
                 loaded' = [loaded EXCEPT ![p] = pref]
            /\ req' = [req EXCEPT ![p] = [op |-> "PATCH", user_id |-> userId,
                                          body |-> payload]]
            /\ pc' = [pc EXCEPT ![p] = "now"]
            /\ Silent
  /\ UNCHANGED <<store, clock, nextId, now>>

\* lines 211-221: the merge and pref.updated_at = datetime.utcnow()
update_user_preferences_now(p) ==
  /\ pc[p] = "now"
  /\ req[p].op = "PATCH"
  /\ now' = [now EXCEPT ![p] = clock]
  /\ pc' = [pc EXCEPT ![p] = "commit"]
  /\ Silent
  /\ UNCHANGED <<store, clock, nextId, req, loaded>>

\* line 223
update_user_preferences_commit(p) ==
  /\ pc[p] = "commit"
  /\ req[p].op = "PATCH"
  /\ CommitUpdate(p)
  /\ UNCHANGED <<clock, nextId>>

\* lines 224-235
update_user_preferences_refresh(p) ==
  /\ pc[p] = "refresh"
  /\ req[p].op = "PATCH"
  /\ Refresh(p)
  /\ Close(p)
  /\ UNCHANGED <<store, clock, nextId>>

\* ------------------------------------------------------------- the service
\* The record the last successful POST or PATCH answered for a user returned
\* ({} once a DELETE was answered).  Recorded in the sequential runs, where
\* "the most recent call" is defined.
History ==
  IF response'.op = "DELETE"
    THEN lastBody' = [lastBody EXCEPT ![response'.user_id] = {}]
    ELSE IF response'.op \in {"POST", "PATCH"} /\ response'.status = 200
      THEN lastBody' = [lastBody EXCEPT ![response'.user_id] = response'.body]
      ELSE UNCHANGED lastBody

NoHistory == UNCHANGED lastBody

\* Request handlers run concurrently (one session each) and interleave at
\* their database statements.
Next ==
  \/ Tick /\ NoHistory
  \/ \E p \in Procs : get_all_preferences(p) /\ NoHistory
  \/ \E p \in Procs, u \in Users : get_user_preferences(p, u) /\ NoHistory
  \/ \E p \in Procs, payload \in ConcurrentCreate :
        create_or_update_preferences_query(p, payload) /\ NoHistory
  \/ \E p \in Procs : create_or_update_preferences_now(p) /\ NoHistory
  \/ \E p \in Procs : create_or_update_preferences_commit(p) /\ NoHistory
  \/ \E p \in Procs : create_or_update_preferences_refresh(p) /\ NoHistory
  \/ \E p \in Procs, u \in Users : delete_user_preferences_query(p, u) /\ NoHistory
  \/ \E p \in Procs : delete_user_preferences_commit(p) /\ NoHistory
  \/ \E p \in Procs, u \in Users, payload \in ConcurrentUpdate :
        update_user_preferences_query(p, u, payload) /\ NoHistory
  \/ \E p \in Procs : update_user_preferences_now(p) /\ NoHistory
  \/ \E p \in Procs : update_user_preferences_commit(p) /\ NoHistory
  \/ \E p \in Procs : update_user_preferences_refresh(p) /\ NoHistory

Spec == Init /\ [][Next]_vars

\* Requests executed one after another: one worker serves them, each to its
\* response before the next.
Worker == "h1"

NextSeq ==
  \/ Tick /\ History
  \/ get_all_preferences(Worker) /\ History
  \/ \E u \in Users : get_user_preferences(Worker, u) /\ History
  \/ \E payload \in PreferenceCreate :
        create_or_update_preferences_query(Worker, payload) /\ History
  \/ create_or_update_preferences_now(Worker) /\ History
  \/ create_or_update_preferences_commit(Worker) /\ History
  \/ create_or_update_preferences_refresh(Worker) /\ History
  \/ \E u \in Users : delete_user_preferences_query(Worker, u) /\ History
  \/ delete_user_preferences_commit(Worker) /\ History
  \/ \E u \in Users, payload \in PreferenceUpdate :
        update_user_preferences_query(Worker, u, payload) /\ History
  \/ update_user_preferences_now(Worker) /\ History
  \/ update_user_preferences_commit(Worker) /\ History
  \/ update_user_preferences_refresh(Worker) /\ History

SpecSeq == Init /\ [][NextSeq]_vars

\* ------------------------------------------------------------------ claims

\* the step in which handler p's pending statement is committed
Commits(p) == pc[p] = "commit" /\ pc'[p] # "commit"

\* p's UPDATE went through (or had nothing to send): the row as stored after
Updates(p, op) ==
  /\ pc[p] = "commit"
  /\ req[p].op = op
  /\ loaded[p] # NoRow
  /\ pc'[p] = "refresh"

StoredAfter(i) == CHOOSE r \in store' : r.id = i

AllIdle == \A p \in Procs : pc[p] = "idle"

\* C1: in a sequential run the store holds at most one record per user_id;
\* a POST answers 200 and leaves exactly one record for its user, and the
\* user keeps exactly one until a DELETE for the user is answered.
C1_OneRecordPerUser ==
  /\ \A u \in Users :
       /\ Cardinality(Matching(u)) <= 1
       /\ lastBody[u] # {} => Cardinality(Matching(u)) = 1
  /\ response.op = "POST" =>
       /\ response.status = 200
       /\ lastBody[response.user_id] = response.body
       /\ Cardinality(Matching(response.user_id)) = 1

\* a user created, deleted and created again holds the one record of the
\* second INSERT
C1_Witness ==
  /\ response.op = "POST"
  /\ \E r \in Matching(response.user_id) : r.id = 2
  /\ \A r \in store : r.user_id = response.user_id

\* C2: in every reachable state, interleaved POSTs for one user_id included,
\* the store holds at most one record with that user_id.
C2_AtMostOneRecord == \A u \in Users : Cardinality(Matching(u)) <= 1

C6_NotFoundAsymmetry ==
  [][/\ \A u \in Users :
          \* a GET, or a PATCH answered by its lookup
          (Matching(u) = {} /\ response'.user_id = u
             /\ response'.op \in {"GET", "PATCH"} /\ pc' = pc)
            => response'.status = 404 /\ store' = store
     /\ response'.op \in {"POST", "DELETE"} => response'.status # 404]_vars

\* a PATCH for a user without a record was answered 404 while another user
\* has one
C6_Witness ==
  /\ response.op = "PATCH"
  /\ response.status = 404
  /\ Matching(response.user_id) = {}
  /\ store # {}

\* C7: a DELETE for a user with no record answers 204 and leaves the store
\* unchanged, and a DELETE that follows a DELETE for the same user (nothing
\* else in flight) answers 204 and finds nothing left to delete.
C7_IdempotentDelete ==
  [][\A p \in Procs, u \in Users :
       /\ (delete_user_preferences_query(p, u) /\ Matching(u) = {})
            => response'.status = 204 /\ store' = store
       /\ (delete_user_preferences_query(p, u) /\ AllIdle
             /\ response.op = "DELETE" /\ response.user_id = u)
            => Matching(u) = {} /\ response'.status = 204 /\ store' = store]_vars

\* C8: every stored record has updated_at >= created_at, and no committed
\* mutation lowers the updated_at of the record it rewrites.
C8_TimestampMonotone ==
  [][/\ \A r \in store' : r.updated_at >= r.created_at
     /\ \A r \in store, r2 \in store' :
          r.id = r2.id => r2.updated_at >= r.updated_at]_vars

\* C9: in a sequential run GET /{userId} answers with exactly the record the
\* most recent POST or PATCH for the user returned, and with 404 when the
\* most recent mutation was a DELETE or there was none.
C9_ReadAfterWrite ==
  response.op = "GET" =>
    /\ response.body = lastBody[response.user_id]
    /\ response.status = IF lastBody[response.user_id] = {} THEN 404 ELSE 200

\* GET returned the record a PATCH had rewritten
C9_Witness ==
  /\ response.op = "GET"
  /\ response.status = 200
  /\ response.body = lastBody[response.user_id]
  /\ \E b \in response.body : b.updated_at > b.created_at /\ b.rooms # NULL

\* C10: a POST on an existing record or a PATCH rewrites that one record and
\* keeps its id, user_id and created_at; no step creates, changes or removes
\* a record of a user other than the one its request names; only a commit
\* changes the store (GET / and GET /{userId} change nothing).
C10_Frame ==
  [][/\ \A r \in store, r2 \in store' :
          r.id = r2.id => r2.user_id = r.user_id /\ r2.created_at = r.created_at
                            /\ r2.location_area = r.location_area
     /\ \A p \in Procs :
          Commits(p) =>
            \A u \in Users \ {req[p].user_id} :
              {r \in store' : r.user_id = u} = Matching(u)
     /\ \A p \in Procs :
          (Updates(p, "POST") \/ Updates(p, "PATCH")) =>
            /\ {r.id : r \in store'} = {r.id : r \in store}
            /\ {r \in store' : r.id # loaded[p].id}
                 = {r \in store : r.id # loaded[p].id}
     /\ (\A p \in Procs : ~Commits(p)) => store' = store]_vars

\* a PATCH has cleared the rooms of a user's record while another user's
\* record holds its own
C10_Witness ==
  \E p \in Procs :
    /\ pc[p] = "refresh"
    /\ req[p].op = "PATCH"
    /\ \E r \in store : r.id = loaded[p].id /\ r.updated_at > r.created_at
                          /\ r.rooms = NULL
    /\ \E r \in store : r.user_id # req[p].user_id /\ r.rooms # NULL

====
